---- MODULE Spec2Model ----
(***************************************************************************)
(* Service-metrics aggregation (ServiceMetricsService, MetricsController)  *)
(* as a state machine.  The collection 'service_metrics' is the sequence   *)
(* store; one request to GET /metrics/services is the action               *)
(* aggregateServiceMetrics, which runs the whole handler: filter building, *)
(* the aggregation pipeline, the per-group post-processing and ranking.    *)
(*                                                                         *)
(* Numbers.  JavaScript/BSON doubles are modelled as exact rationals       *)
(* [nan, num, den] (den > 0), with NaN as its own value.  Instants and     *)
(* durations are integers in milliseconds, as Date.getTime() gives them.   *)
(***************************************************************************)
EXTENDS Integers, Sequences, FiniteSets, TLC

VARIABLES
    store,        \* documents of the collection service_metrics, in natural order
    now,          \* the clock: what new Date() returns
    pc,           \* position of the request handler: "idle", "processing" (inside
                  \* Promise.all), "done", "again" (the same query was run once more),
                  \* "failed" (aggregateServiceMetrics rejected)
    query,        \* the AggregationQuery of the last request
    matchStage,   \* { ...dateFilter, ...serviceFilter } of the last request
    timeRangeMs,  \* getTimeRangeInMs(query) of the last request
    results,      \* collection.aggregate(pipeline).toArray() of the last request
    output,       \* the ServiceAggregation[] returned by the last request
    tasks,        \* the pending callbacks of results.map, one per result
    values,       \* the array Promise.all fills as its promises are fulfilled
    thrown,       \* the error aggregateServiceMetrics rejected with
    response,     \* the body and status the controller sent last
    paginationQuery,   \* req.query.page and req.query.limit of the last GET /api/data
    paginationParams,  \* what validatePaginationParams returned for it
    seeders,      \* the calls of createSampleMetrics in flight, by caller
    operations,   \* PerformanceService.operations: the ids of the active operations
    metrics,      \* PerformanceService.metrics
    users,        \* UserService.users: the ids of the users held
    calls         \* the calls of UserService in flight, by request id

\* the state outside the metrics aggregation
otherVars ==
    <<paginationQuery, paginationParams, seeders, operations, metrics, users, calls>>

vars ==
    <<store, now, pc, query, matchStage, timeRangeMs, results, output, tasks, values,
      thrown, response, paginationQuery, paginationParams, seeders, operations, metrics,
      users, calls>>

(***************************************************************************)
(* Bounds of the model.                                                    *)
(***************************************************************************)
MaxEvents == 2
MaxRankEvents == 3
MaxTick == 1
MaxSamples == 3
MaxTaskEvents == 3
MaxSeeders == 2
MaxSeedCount == 3
MaxCalls == 3
MaxGroupSize == 21
\* documents per insertMany; the source inserts in batches of 1000
ModelBatchSize == 2

(***************************************************************************)
(* Numbers: exact rationals and NaN.                                       *)
(***************************************************************************)
NaN == [nan |-> TRUE, num |-> 0, den |-> 1]

RECURSIVE Gcd(_, _)
Gcd(a, b) == IF b = 0 THEN a ELSE Gcd(b, a % b)

Abs(n) == IF n < 0 THEN -n ELSE n

\* the rational n / d (d # 0) in lowest terms, den > 0
Frac(n, d) ==
    LET g == Gcd(Abs(n), Abs(d))
        sgn == IF d < 0 THEN -1 ELSE 1
    IN  [nan |-> FALSE, num |-> sgn * (n \div g), den |-> sgn * (d \div g)]

Num(n) == Frac(n, 1)

\* a / b of JavaScript and of $divide, for b # 0
NumDiv(a, b) ==
    IF a.nan \/ b.nan \/ b.num = 0 THEN NaN
    ELSE Frac(a.num * b.den, a.den * b.num)

NumMul(a, b) ==
    IF a.nan \/ b.nan THEN NaN ELSE Frac(a.num * b.num, a.den * b.den)

NumSub(a, b) ==
    IF a.nan \/ b.nan THEN NaN
    ELSE Frac(a.num * b.den - b.num * a.den, a.den * b.den)

NumEq(a, b) == ~a.nan /\ ~b.nan /\ a.num * b.den = b.num * a.den
NumLe(a, b) == ~a.nan /\ ~b.nan /\ a.num * b.den <= b.num * a.den
NumLt(a, b) == ~a.nan /\ ~b.nan /\ a.num * b.den < b.num * a.den

\* x || 1 : 0 and NaN are falsy
OrOne(x) == IF x.nan \/ x.num = 0 THEN Num(1) ELSE x

\* Math.max(a, b)
MathMax(a, b) == IF a.nan \/ b.nan THEN NaN ELSE IF NumLe(a, b) THEN b ELSE a

\* Math.round(x): floor(x + 1/2)
MathRound(x) == IF x.nan THEN NaN ELSE Num((2 * x.num + x.den) \div (2 * x.den))

\* Math.round(x * 100) / 100
Round2(x) ==
    IF x.nan THEN NaN
    ELSE Frac(MathRound(NumMul(x, Num(100))).num, 100)

(***************************************************************************)
(* Values of the model: instants, query strings, documents.                *)
(***************************************************************************)
\* a fixed instant (ms since the epoch) the clock starts at
T0 == 1000 * 1000 * 1000

Undefined == [k |-> "undefined", t |-> 0]
EmptyString == [k |-> "empty", t |-> 0]
Garbage == [k |-> "garbage", t |-> 0]
\* the ISO-8601 string of instant t
Iso(t) == [k |-> "iso", t |-> t]

\* JavaScript truthiness of an optional string: undefined and "" are falsy
Truthy(s) == s.k \notin {"undefined", "empty"}

\* new Date(s).getTime(): NaN (Invalid Date) for text that is no date
NewDate(s) == IF s.k = "iso" THEN Num(s.t) ELSE NaN

\* an optional gauge / an optional number
NoNumber == [def |-> FALSE, v |-> Num(0)]
Some(x) == [def |-> TRUE, v |-> x]

\* an optional string[] of the query
NoList == [def |-> FALSE, list |-> <<>>]
List(l) == [def |-> TRUE, list |-> l]

Range(s) == {s[i] : i \in 1..Len(s)}

(***************************************************************************)
(* DateUtils                                                               *)
(***************************************************************************)
\* timeRanges[timeRange] || 0
getTimeRangeInMinutes(timeRange) ==
    CASE timeRange = "5minutes" -> 5
      [] timeRange = "10minutes" -> 10
      [] timeRange = "1hour" -> 60
      [] timeRange = "24hours" -> 1440
      [] timeRange = "7days" -> 10080
      [] OTHER -> 0

getDateRangeFromTimeOption(timeRange, clock) ==
    LET endDate == clock
        minutes == getTimeRangeInMinutes(timeRange)
    IN  [startDate |-> endDate - (minutes * 60 * 1000), endDate |-> endDate]

(***************************************************************************)
(* ServiceMetricsService: filters                                          *)
(***************************************************************************)
\* query.timeRange && query.timeRange !== 'custom'
NamedRange(q) == q.timeRange \notin {"undefined", "", "custom"}

NoDateFilter == [hasTimestamp |-> FALSE, gte |-> Num(0), lte |-> Num(0)]

\* buildDateFilter that also filters on a single bound, as PaginationUtils.buildDateFilter does
buildDateFilterOneSided(q, clock) ==
    IF NamedRange(q)
    THEN LET r == getDateRangeFromTimeOption(q.timeRange, clock)
         IN  [hasTimestamp |-> TRUE, gte |-> Num(r.startDate), lte |-> Num(r.endDate)]
    ELSE IF Truthy(q.startDate) /\ Truthy(q.endDate)
    THEN [hasTimestamp |-> TRUE, gte |-> NewDate(q.startDate), lte |-> NewDate(q.endDate)]
    ELSE IF Truthy(q.startDate)
    THEN [hasTimestamp |-> TRUE, gte |-> NewDate(q.startDate), lte |-> Num(2 * T0)]
    ELSE IF Truthy(q.endDate)
    THEN [hasTimestamp |-> TRUE, gte |-> Num(0), lte |-> NewDate(q.endDate)]
    ELSE NoDateFilter

buildDateFilter(q, clock) ==
    IF NamedRange(q)
    THEN LET r == getDateRangeFromTimeOption(q.timeRange, clock)
         IN  [hasTimestamp |-> TRUE, gte |-> Num(r.startDate), lte |-> Num(r.endDate)]
    ELSE IF Truthy(q.startDate) /\ Truthy(q.endDate)
    THEN [hasTimestamp |-> TRUE, gte |-> NewDate(q.startDate), lte |-> NewDate(q.endDate)]
    ELSE NoDateFilter

\* buildServiceFilter without the tests of length > 0: an empty list becomes $in: []
buildServiceFilterEmptyIn(q) ==
    [hasServicename |-> q.servicenames.def,
     servicenameIn  |-> q.servicenames.list,
     hasSeverity    |-> q.severities.def,
     severityIn     |-> q.severities.list]

buildServiceFilter(q) ==
    [hasServicename |-> q.servicenames.def /\ Len(q.servicenames.list) > 0,
     servicenameIn  |-> q.servicenames.list,
     hasSeverity    |-> q.severities.def /\ Len(q.severities.list) > 0,
     severityIn     |-> q.severities.list]

\* { ...dateFilter, ...serviceFilter }
MatchStage(q, clock) ==
    LET d == buildDateFilter(q, clock)
        s == buildServiceFilter(q)
    IN  [hasTimestamp |-> d.hasTimestamp, gte |-> d.gte, lte |-> d.lte,
         hasServicename |-> s.hasServicename, servicenameIn |-> s.servicenameIn,
         hasSeverity |-> s.hasSeverity, severityIn |-> s.severityIn]

\* the instant a Date is stored as in the filter document: the driver writes
\* Long.fromNumber(date.getTime()), which is 0 for an Invalid Date
BsonDate(d) == IF d.nan THEN 0 ELSE d.num

\* Matches with the severity allow-list forgotten
MatchesIgnoringSeverity(stage, e) ==
    /\ stage.hasTimestamp =>
          /\ e.timestamp >= BsonDate(stage.gte)
          /\ e.timestamp <= BsonDate(stage.lte)
    /\ stage.hasServicename => e.servicename \in Range(stage.servicenameIn)

\* Matches with $lt in place of $lte
MatchesEndExclusive(stage, e) ==
    /\ stage.hasTimestamp =>
          /\ e.timestamp >= BsonDate(stage.gte)
          /\ e.timestamp < BsonDate(stage.lte)
    /\ stage.hasServicename => e.servicename \in Range(stage.servicenameIn)
    /\ stage.hasSeverity => e.severity \in Range(stage.severityIn)

\* $match: does document e satisfy the stage
Matches(stage, e) ==
    /\ stage.hasTimestamp =>
          /\ e.timestamp >= BsonDate(stage.gte)
          /\ e.timestamp <= BsonDate(stage.lte)
    /\ stage.hasServicename => e.servicename \in Range(stage.servicenameIn)
    /\ stage.hasSeverity => e.severity \in Range(stage.severityIn)

\* getTimeRangeInMs that prefers startDate and endDate whenever both are supplied
getTimeRangeInMsPreferringDates(q) ==
    IF Truthy(q.startDate) /\ Truthy(q.endDate)
    THEN NumSub(NewDate(q.endDate), NewDate(q.startDate))
    ELSE IF NamedRange(q)
    THEN Num(getTimeRangeInMinutes(q.timeRange) * 60 * 1000)
    ELSE Num(24 * 60 * 60 * 1000)

getTimeRangeInMs(q) ==
    IF NamedRange(q)
    THEN Num(getTimeRangeInMinutes(q.timeRange) * 60 * 1000)
    ELSE IF Truthy(q.startDate) /\ Truthy(q.endDate)
    THEN NumSub(NewDate(q.endDate), NewDate(q.startDate))
    ELSE Num(24 * 60 * 60 * 1000)

(***************************************************************************)
(* The aggregation pipeline ($match, $group, $project, $addFields)         *)
(***************************************************************************)
RECURSIVE SumInt(_)
SumInt(s) == IF s = <<>> THEN 0 ELSE Head(s) + SumInt(Tail(s))

NumAdd(a, b) ==
    IF a.nan \/ b.nan THEN NaN
    ELSE Frac(a.num * b.den + b.num * a.den, a.den * b.den)

RECURSIVE SumNum(_)
SumNum(s) == IF s = <<>> THEN Num(0) ELSE NumAdd(Head(s), SumNum(Tail(s)))

\* $avg of a non-empty array
Avg(s) == NumDiv(SumNum(s), Num(Len(s)))

RECURSIVE MinNum(_)
MinNum(s) ==
    IF Len(s) = 1 THEN Head(s)
    ELSE LET m == MinNum(Tail(s)) IN IF NumLe(Head(s), m) THEN Head(s) ELSE m

RECURSIVE MaxNum(_)
MaxNum(s) ==
    IF Len(s) = 1 THEN Head(s)
    ELSE LET m == MaxNum(Tail(s)) IN IF NumLe(m, Head(s)) THEN Head(s) ELSE m

\* stable insertion of x into the ascending sequence s
RECURSIVE InsertAsc(_, _)
InsertAsc(x, s) ==
    IF s = <<>> THEN <<x>>
    ELSE IF NumLt(x, Head(s)) THEN <<x>> \o s
    ELSE <<Head(s)>> \o InsertAsc(x, Tail(s))

\* $sortArray sortBy 1, and Array.prototype.sort((a, b) => a - b): stable, ascending
RECURSIVE SortAsc(_)
SortAsc(s) ==
    IF s = <<>> THEN <<>>
    ELSE InsertAsc(s[Len(s)], SortAsc(SubSeq(s, 1, Len(s) - 1)))

\* a group per document instead of a group per servicename
GroupKeysPerDocument(d) == [i \in 1..Len(d) |-> d[i].servicename]

\* the servicenames of the sequence of documents d, each once, in order of first occurrence
RECURSIVE GroupKeys(_)
GroupKeys(d) ==
    IF d = <<>> THEN <<>>
    ELSE LET k == GroupKeys(SubSeq(d, 1, Len(d) - 1))
             n == d[Len(d)].servicename
         IN  IF n \in Range(k) THEN k ELSE Append(k, n)

\* IsError with $gt in place of $gte
IsErrorAbove(e) == e.statusCode > 400

\* $cond [ $gte [$statusCode, 400], ... ]
IsError(e) == e.statusCode >= 400

\* the accumulator fields the $group stage gives the documents d of one service
GroupStage(name, d) ==
    LET errs == SelectSeq(d, IsError)
    IN  [servicename |-> name,
         totalRequests |-> SumInt([i \in 1..Len(d) |-> d[i].requestCount]),
         errorCount |-> SumInt([i \in 1..Len(errs) |-> errs[i].requestCount]),
         responseTimes |-> [i \in 1..Len(d) |-> d[i].responseTime],
         cpuUsages |-> [i \in 1..Len(d) |->
                          IF d[i].cpuUsage.def THEN d[i].cpuUsage.v ELSE Num(0)],
         memoryUsages |-> [i \in 1..Len(d) |->
                          IF d[i].memoryUsage.def THEN d[i].memoryUsage.v ELSE Num(0)],
         errorsByStatusCode |-> [i \in 1..Len(errs) |->
                          [statusCode |-> errs[i].statusCode, count |-> errs[i].requestCount]],
         errorsBySeverity |-> [i \in 1..Len(errs) |->
                          [severity |-> errs[i].severity, count |-> errs[i].requestCount]]]

\* timeRangeSeconds and timeRangeMinutes of aggregateServiceMetrics
TimeRangeSeconds(ms) == NumDiv(ms, Num(1000))
TimeRangeMinutes(ms) == NumDiv(TimeRangeSeconds(ms), Num(60))

\* $divide: ['$totalRequests', timeRangeSeconds || 1]
RequestsPerSecond(total, ms) == NumDiv(Num(total), OrOne(TimeRangeSeconds(ms)))

\* $divide: ['$totalRequests', timeRangeMinutes || 1]
RequestsPerMinute(total, ms) == NumDiv(Num(total), OrOne(TimeRangeMinutes(ms)))

\* ErrorRate without the $multiply by 100
ErrorRateAsRatio(errorCount, total) == NumDiv(Num(errorCount), Num(total))

\* $multiply: [ $divide: ['$errorCount', '$totalRequests'], 100 ]
ErrorRate(errorCount, total) == NumMul(NumDiv(Num(errorCount), Num(total)), Num(100))

\* the lower of the two middle values for an even size
MedianLowerMiddle(s) == SortAsc(s)[((Len(s) - 1) \div 2) + 1]

\* $arrayElemAt [ $slice [ sorted, floor(size / 2), 1 ], 0 ]
Median(s) == SortAsc(s)[(Len(s) \div 2) + 1]

\* one document of the pipeline's output: $project and $addFields over a group
ProjectStage(g, ms) ==
    [servicename |-> g.servicename,
     totalRequests |-> g.totalRequests,
     errorCount |-> g.errorCount,
     errorRate |-> ErrorRate(g.errorCount, g.totalRequests),
     requestsPerSecond |-> RequestsPerSecond(g.totalRequests, ms),
     requestsPerMinute |-> RequestsPerMinute(g.totalRequests, ms),
     responseTimes |-> g.responseTimes,
     cpuUsages |-> g.cpuUsages,
     memoryUsages |-> g.memoryUsages,
     errorsByStatusCode |-> g.errorsByStatusCode,
     errorsBySeverity |-> g.errorsBySeverity,
     averageResponseTime |-> Avg(g.responseTimes),
     medianResponseTime |-> Median(g.responseTimes),
     minResponseTime |-> MinNum(g.responseTimes),
     maxResponseTime |-> MaxNum(g.responseTimes),
     averageCpuUsage |-> Avg(g.cpuUsages),
     averageMemoryUsage |-> Avg(g.memoryUsages),
     maxCpuUsage |-> MaxNum(g.cpuUsages),
     maxMemoryUsage |-> MaxNum(g.memoryUsages)]

\* the documents of the collection that pass $match, in natural order
Matched(docs, stage) == SelectSeq(docs, LAMBDA e : Matches(stage, e))

\* the pipeline's output with its groups in the order keys
Pipeline(docs, stage, ms, keys) ==
    LET m == Matched(docs, stage)
    IN  [i \in 1..Len(keys) |->
            ProjectStage(GroupStage(keys[i],
                                    SelectSeq(m, LAMBDA e : e.servicename = keys[i])), ms)]

\* the orders $group may emit the groups in: every arrangement of the keys
GroupOrders(docs, stage) ==
    LET k == GroupKeys(Matched(docs, stage))
        n == Len(k)
    IN  {[i \in 1..n |-> k[p[i]]] :
            p \in {f \in [1..n -> 1..n] : \A i, j \in 1..n : f[i] = f[j] => i = j}}

(***************************************************************************)
(* Post-processing of the pipeline's output                                *)
(***************************************************************************)
\* a Map entry per error instead of one per key
MapKeysPerError(ks) == ks

\* the keys a Map holds after the entries of errors were set in order
RECURSIVE MapKeys(_)
MapKeys(ks) ==
    IF ks = <<>> THEN <<>>
    ELSE LET k == MapKeys(SubSeq(ks, 1, Len(ks) - 1))
         IN  IF ks[Len(ks)] \in Range(k) THEN k ELSE Append(k, ks[Len(ks)])

\* Percentage rounded as a ratio: Math.round((count / totalErrors) * 100) / 100
PercentageOfRatio(count, totalErrors) ==
    IF totalErrors > 0
    THEN NumDiv(MathRound(NumMul(NumDiv(Num(count), Num(totalErrors)), Num(100))),
                Num(100))
    ELSE Num(0)

\* Math.round((count / totalErrors) * 10000) / 100, or 0
Percentage(count, totalErrors) ==
    IF totalErrors > 0
    THEN NumDiv(MathRound(NumMul(NumDiv(Num(count), Num(totalErrors)), Num(10000))),
                Num(100))
    ELSE Num(0)

\* the entries left in the order of the Map
SortByCountLeftOut(s) == s

\* stable insertion of entry x into s, sorted by descending count
RECURSIVE InsertByCount(_, _)
InsertByCount(x, s) ==
    IF s = <<>> THEN <<x>>
    ELSE IF Head(s).count < x.count THEN <<x>> \o s
    ELSE <<Head(s)>> \o InsertByCount(x, Tail(s))

\* Array.prototype.sort((a, b) => b.count - a.count)
RECURSIVE SortByCount(_)
SortByCount(s) ==
    IF s = <<>> THEN <<>>
    ELSE InsertByCount(s[Len(s)], SortByCount(SubSeq(s, 1, Len(s) - 1)))

processErrorsByStatusCode(errors, totalErrors) ==
    LET kept == SelectSeq(errors, LAMBDA e : e.statusCode # 0)
        keys == MapKeys([i \in 1..Len(kept) |-> kept[i].statusCode])
        countOf(k) == LET of == SelectSeq(kept, LAMBDA e : e.statusCode = k)
                      IN  SumInt([i \in 1..Len(of) |-> of[i].count])
    IN  SortByCount([i \in 1..Len(keys) |->
            [statusCode |-> keys[i],
             count |-> countOf(keys[i]),
             percentage |-> Percentage(countOf(keys[i]), totalErrors)]])

processErrorsBySeverity(errors, totalErrors) ==
    LET kept == SelectSeq(errors, LAMBDA e : e.severity # "")
        keys == MapKeys([i \in 1..Len(kept) |-> kept[i].severity])
        countOf(k) == LET of == SelectSeq(kept, LAMBDA e : e.severity = k)
                      IN  SumInt([i \in 1..Len(of) |-> of[i].count])
    IN  SortByCount([i \in 1..Len(keys) |->
            [severity |-> keys[i],
             count |-> countOf(keys[i]),
             percentage |-> Percentage(countOf(keys[i]), totalErrors)]])

\* calculateResourceUtilization with > in place of >=
calculateResourceUtilizationAbove(cpuUsage, memoryUsage) ==
    LET maxUsage == MathMax(cpuUsage, memoryUsage)
    IN  IF NumLt(Num(90), maxUsage) THEN "critical"
        ELSE IF NumLt(Num(70), maxUsage) THEN "high"
        ELSE IF NumLt(Num(50), maxUsage) THEN "medium"
        ELSE "low"

calculateResourceUtilization(cpuUsage, memoryUsage) ==
    LET maxUsage == MathMax(cpuUsage, memoryUsage)
    IN  IF NumLe(Num(90), maxUsage) THEN "critical"
        ELSE IF NumLe(Num(70), maxUsage) THEN "high"
        ELSE IF NumLe(Num(50), maxUsage) THEN "medium"
        ELSE "low"

\* responseTimes[index] of a 0-based index: undefined beyond the end, NaN once multiplied
ElemAt(s, index) == IF index < Len(s) THEN s[index + 1] ELSE NaN

\* the nearest-rank index Math.ceil(length * percent / 100) - 1
PercentileIndexNearestRank(length, percent) == ((length * percent + 99) \div 100) - 1

\* the index rounded up: Math.ceil(length * percent / 100)
PercentileIndexCeil(length, percent) == (length * percent + 99) \div 100

\* Math.floor(responseTimes.length * 0.95), Math.floor(responseTimes.length * 0.99)
PercentileIndex(length, percent) == (length * percent) \div 100

\* the object the callback of results.map returns, from the sorted responseTimes and
\* the two awaited breakdowns
BuildAggregation(result, index, responseTimes, errorsByType, errorsBySeverity) ==
    LET p95Index == PercentileIndex(Len(responseTimes), 95)
        p99Index == PercentileIndex(Len(responseTimes), 99)
    IN  [servicename |-> result.servicename,
         rank |-> index + 1,
         rate |-> [requestsPerSecond |-> Round2(result.requestsPerSecond),
                   requestsPerMinute |-> Round2(result.requestsPerMinute),
                   totalRequests |-> result.totalRequests],
         error |-> [errorRate |-> Round2(result.errorRate),
                    errorCount |-> result.errorCount,
                    totalRequests |-> result.totalRequests,
                    errorsByType |-> errorsByType,
                    errorsBySeverity |-> errorsBySeverity],
         duration |-> [averageResponseTime |-> Round2(result.averageResponseTime),
                       medianResponseTime |-> Round2(result.medianResponseTime),
                       p95ResponseTime |-> Round2(ElemAt(responseTimes, p95Index)),
                       p99ResponseTime |-> Round2(ElemAt(responseTimes, p99Index)),
                       minResponseTime |-> result.minResponseTime,
                       maxResponseTime |-> result.maxResponseTime],
         saturation |-> [averageCpuUsage |-> Round2(result.averageCpuUsage),
                         averageMemoryUsage |-> Round2(result.averageMemoryUsage),
                         maxCpuUsage |-> result.maxCpuUsage,
                         maxMemoryUsage |-> result.maxMemoryUsage,
                         resourceUtilization |->
                             calculateResourceUtilization(result.averageCpuUsage,
                                                          result.averageMemoryUsage)]]

\* the callback of results.map in aggregateServiceMetrics, run from start to end
ProcessResult(result, index) ==
    BuildAggregation(result, index, SortAsc(result.responseTimes),
        processErrorsByStatusCode(result.errorsByStatusCode, result.errorCount),
        processErrorsBySeverity(result.errorsBySeverity, result.errorCount))

(***************************************************************************)
(* Promise.all over the callbacks, and the controller's two answers        *)
(***************************************************************************)
\* a slot of Promise.all's array whose promise is not fulfilled yet
Pending == [servicename |-> "pending"]

\* the callback of results.map run up to its first await: responseTimes is sorted
\* in place and processErrorsByStatusCode has been called
StartTask(result) ==
    [step |-> "awaitErrorsByType",
     responseTimes |-> SortAsc(result.responseTimes),
     errorsByType |-> processErrorsByStatusCode(result.errorsByStatusCode, result.errorCount),
     errorsBySeverity |-> <<>>]

\* the callback resumed after its first await: processErrorsBySeverity is called
AwaitErrorsBySeverity(task, result) ==
    [task EXCEPT !.step = "awaitErrorsBySeverity",
                 !.errorsBySeverity =
                     processErrorsBySeverity(result.errorsBySeverity, result.errorCount)]

\* an array filled in the order the promises are fulfilled
PromiseAllInCompletionOrder(vals, index, v) ==
    LET first == CHOOSE i \in 1..Len(vals) :
                    vals[i] = Pending /\ \A j \in 1..(i - 1) : vals[j] # Pending
    IN  [vals EXCEPT ![first] = v]

\* Promise.all books the value of the promise at position index (1-based here)
\* under that position, whatever the order of fulfilment
PromiseAllFulfil(vals, index, v) == [vals EXCEPT ![index] = v]

\* the error of the driver when the read of the pipeline fails
ReadErrors == {"MongoNetworkError", "MongoServerError"}
NoError == "none"

\* no response has been sent for the request in hand
NoResponse == [status |-> 0, success |-> FALSE, hasData |-> FALSE, message |-> NoError]

\* res.json({ success: true, data: aggregation, summary })
SuccessResponse == [status |-> 200, success |-> TRUE, hasData |-> TRUE, message |-> NoError]

\* the catch block answering 200 with an empty list
ErrorResponseAsEmptyList(error) ==
    [status |-> 200, success |-> TRUE, hasData |-> TRUE, message |-> error]

\* res.status(500).json({ success: false, error, message: error.message })
ErrorResponse(error) ==
    [status |-> 500, success |-> FALSE, hasData |-> FALSE, message |-> error]

(***************************************************************************)
(* rankServices                                                            *)
(***************************************************************************)
\* the value the comparator of rankServices orders by
RankKey(rankBy, s) ==
    CASE rankBy = "rate" -> s.rate.requestsPerSecond
      [] rankBy = "error" -> s.error.errorRate
      [] rankBy = "duration" -> s.duration.averageResponseTime
      [] rankBy = "saturation" ->
            MathMax(s.saturation.averageCpuUsage, s.saturation.averageMemoryUsage)
      [] OTHER -> s.error.errorRate

\* InsertByKey for the comparator key(a) - key(b): ascending
RECURSIVE InsertByKeyAscending(_, _, _)
InsertByKeyAscending(rankBy, x, s) ==
    IF s = <<>> THEN <<x>>
    ELSE IF NumLt(RankKey(rankBy, x), RankKey(rankBy, Head(s))) THEN <<x>> \o s
    ELSE <<Head(s)>> \o InsertByKeyAscending(rankBy, x, Tail(s))

\* stable insertion of x into s, sorted by descending key
RECURSIVE InsertByKey(_, _, _)
InsertByKey(rankBy, x, s) ==
    IF s = <<>> THEN <<x>>
    ELSE IF NumLt(RankKey(rankBy, Head(s)), RankKey(rankBy, x)) THEN <<x>> \o s
    ELSE <<Head(s)>> \o InsertByKey(rankBy, x, Tail(s))

\* services.sort((a, b) => key(b) - key(a))
RECURSIVE SortByKey(_, _)
SortByKey(rankBy, s) ==
    IF s = <<>> THEN <<>>
    ELSE InsertByKey(rankBy, s[Len(s)], SortByKey(rankBy, SubSeq(s, 1, Len(s) - 1)))

\* UpdateRanks left out: every service keeps its provisional rank
KeepRanks(s) == s

\* ranks counted on from the list the previous request returned
UpdateRanksContinuing(s) == [i \in 1..Len(s) |-> [s[i] EXCEPT !.rank = Len(output) + i]]

\* sortedServices.forEach((service, index) => service.rank = index + 1)
UpdateRanks(s) == [i \in 1..Len(s) |-> [s[i] EXCEPT !.rank = (i - 1) + 1]]

\* Array.prototype.slice(0, end) for an integer end
Slice(s, end) ==
    LET to == IF end < 0 THEN Len(s) + end ELSE end
    IN  IF to <= 0 THEN <<>>
        ELSE IF to >= Len(s) THEN s
        ELSE SubSeq(s, 1, to)

\* limit ? sortedServices.slice(0, limit) : sortedServices  (undefined, 0 and NaN are falsy)
ApplyLimit(s, limit) ==
    IF limit.def /\ ~limit.v.nan /\ limit.v.num # 0
    THEN Slice(s, limit.v.num)
    ELSE s

rankServices(services, rankBy, limit) ==
    ApplyLimit(UpdateRanks(SortByKey(rankBy, services)), limit)

\* query.rankBy || 'error'
RankByOrError(q) == IF q.rankBy \in {"undefined", ""} THEN "error" ELSE q.rankBy

(***************************************************************************)
(* DataController.getData and PaginationUtils.validatePaginationParams     *)
(***************************************************************************)
\* query-string text made of an optional sign and digits: String(n)
Digits(n) == [k |-> "digits", t |-> n]
\* digits followed by other text, such as "12abc" or "12.5"
DigitsThenText(n) == [k |-> "digitsThenText", t |-> n]

\* parseInt(s): the leading integer of the text, NaN when there is none
parseInt(s) == IF s.k \in {"digits", "digitsThenText"} THEN Num(s.t) ELSE NaN

\* Math.min(a, b)
MathMin(a, b) == IF a.nan \/ b.nan THEN NaN ELSE IF NumLe(a, b) THEN a ELSE b

\* String(x) of an integer or of NaN: "NaN" is text without a leading integer
NumberToString(x) == IF x.nan THEN Garbage ELSE Digits(x.num)

\* req.query.page ? parseInt(req.query.page) : undefined
getDataNumber(text) == IF Truthy(text) THEN Some(parseInt(text)) ELSE NoNumber

\* the PaginationQuery DataController.getData builds: page and limit
getDataQuery(raw) == [page |-> getDataNumber(raw.page), limit |-> getDataNumber(raw.limit)]

\* parseInt(x?.toString() || fallback): every String(x) of a number is truthy
ParseOr(x, fallback) == IF x.def THEN parseInt(NumberToString(x.v)) ELSE parseInt(Digits(fallback))

validatePaginationParams(q) ==
    [page |-> MathMax(Num(1), ParseOr(q.page, 1)),
     limit |-> MathMin(Num(100), MathMax(Num(1), ParseOr(q.limit, 10)))]

\* the texts a request may carry as page or as limit
PaginationTexts ==
    {Undefined, EmptyString, Garbage, DigitsThenText(12)}
    \cup {Digits(n) : n \in {-3, 0, 1, 5, 10, 100, 101, 250}}

(***************************************************************************)
(* Inputs the model draws from                                             *)
(***************************************************************************)
Metric(name, sev, ts, rt, status, count, cpu, mem) ==
    [servicename |-> name, severity |-> sev, timestamp |-> ts, responseTime |-> rt,
     statusCode |-> status, requestCount |-> count, cpuUsage |-> cpu, memoryUsage |-> mem]

Query(tr, sd, ed, names, sevs, rb, lim) ==
    [timeRange |-> tr, startDate |-> sd, endDate |-> ed, servicenames |-> names,
     severities |-> sevs, rankBy |-> rb, limit |-> lim]

\* aggregateServiceMetrics(query = {})
EmptyQuery == Query("undefined", Undefined, Undefined, NoList, NoList, "undefined", NoNumber)

FiveMinutes == 5 * 60 * 1000

\* documents and queries that exercise the time window
WindowInstants == {T0 - FiveMinutes, T0, T0 + 1}

WindowMetrics ==
    {Metric("auth-service", "low", ts, Num(10), 200, c, NoNumber, NoNumber) :
        ts \in WindowInstants, c \in 1..2}

DateStrings == {Undefined, EmptyString, Garbage, Iso(T0 - FiveMinutes), Iso(T0)}

WindowQueries ==
    {Query(tr, sd, ed, NoList, NoList, "undefined", NoNumber) :
        tr \in {"undefined", "custom"}, sd \in DateStrings, ed \in DateStrings \ {EmptyString}}
    \cup
    {Query(tr, d, d, NoList, NoList, "undefined", NoNumber) :
        tr \in {"5minutes", "10minutes", "1hour", "24hours", "7days", "2weeks"},
        d \in {Undefined, Iso(T0)}}

\* documents and queries that exercise the allow-lists
FilterMetrics ==
    {Metric(n, sev, ts, Num(10), 200, c, NoNumber, NoNumber) :
        n \in {"auth-service", "user-service"}, sev \in {"low", "critical"},
        ts \in {T0 - FiveMinutes, T0 + 1}, c \in 1..2}

FilterQueries ==
    {Query(w[1], w[2], w[3], names, sevs, "undefined", NoNumber) :
        w \in {<<"undefined", Undefined, Undefined>>,
               <<"custom", Iso(T0 - FiveMinutes), Iso(T0)>>},
        names \in {NoList, List(<<>>), List(<<"auth-service">>), List(<<"file-service">>),
                   List(<<"user-service", "auth-service">>)},
        sevs \in {NoList, List(<<>>), List(<<"critical">>), List(<<"low", "critical">>)}}

\* documents and queries that exercise the statistics and the ranking
RankProfiles ==
    {<<"low", Num(10), 200, 1, NoNumber, Some(Num(30))>>,
     <<"high", Num(20), 500, 2, Some(Num(90)), NoNumber>>,
     <<"critical", Num(30), 404, 3, Some(Num(50)), Some(Num(70))>>}

RankMetrics ==
    {Metric(n, p[1], T0, p[2], p[3], p[4], p[5], p[6]) :
        n \in {"auth-service", "user-service"}, p \in RankProfiles}
    \cup
    {Metric("file-service", p[1], T0, p[2], p[3], p[4], p[5], p[6]) :
        p \in {q \in RankProfiles : q[1] # "high"}}

RankQueries ==
    {Query("custom", Iso(T0), Iso(T0 + 1000), NoList, NoList, rb, NoNumber) :
        rb \in {"undefined", "rate", "error", "duration", "saturation"}}
    \cup
    {Query("custom", Iso(T0), Iso(T0 + 1000), NoList, NoList, "rate", Some(Num(k))) :
        k \in 0..2}

\* documents that exercise the duration statistics: response times with two and
\* with three decimals
DurationMetrics ==
    {Metric("auth-service", "low", T0, rt, 200, c, NoNumber, NoNumber) :
        rt \in {Num(10), Frac(10004, 1000), Frac(10006, 1000), Num(20)}, c \in 1..2}

\* documents that build one long group: the next response time is 10 more than the
\* number of samples held times 10, or, for the first three, one from the top
LongGroupMetrics(held) ==
    {Metric("auth-service", "low", T0, Num(rt), 200, 1, NoNumber, NoNumber) :
        rt \in {10 * (Len(held) + 1)}
               \cup (IF Len(held) < 3 THEN {10 * (MaxGroupSize + 1 - Len(held))} ELSE {})}

\* documents that exercise the error breakdowns: <<statusCode, severity>>
ErrorProfiles ==
    {<<200, "low">>, <<399, "low">>, <<400, "low">>, <<404, "high">>, <<500, "critical">>,
     <<500, "low">>}

ErrorMetrics ==
    {Metric("auth-service", p[2], T0, Num(10), p[1], c, NoNumber, NoNumber) :
        p \in ErrorProfiles, c \in 1..2}

\* documents that exercise error events without a severity: "" stands for a
\* severity field that is empty or missing
SeverityMetrics ==
    {Metric("auth-service", sev, T0, Num(10), status, c, NoNumber, NoNumber) :
        sev \in {"", "low"}, status \in {200, 500}, c \in 1..2}

\* documents and queries that exercise the order of delivery: two services, error
\* events of equal and of different requestCount: <<statusCode, severity, requestCount>>
OrderProfiles ==
    {<<200, "low", 1>>, <<404, "high", 1>>, <<500, "critical", 1>>, <<500, "low", 2>>}

OrderMetrics ==
    {Metric(n, p[2], T0, Num(10), p[1], p[3], NoNumber, NoNumber) :
        n \in {"auth-service", "user-service"}, p \in OrderProfiles}

OrderQueries ==
    {EmptyQuery,
     Query("undefined", Undefined, Undefined, NoList, NoList, "rate", Some(Num(1)))}

\* documents that exercise the gauges: <<cpuUsage, memoryUsage>>, at and next to
\* the edges of the bands
SaturationProfiles ==
    {<<NoNumber, NoNumber>>, <<Some(Num(50)), NoNumber>>, <<NoNumber, Some(Num(70))>>,
     <<Some(Num(90)), NoNumber>>, <<Some(Frac(8999, 100)), Some(Num(70))>>,
     <<Some(Frac(4999, 100)), NoNumber>>, <<NoNumber, Some(Frac(6999, 100))>>}

SaturationMetrics ==
    {Metric("auth-service", "low", T0, Num(10), 200, 1, p[1], p[2]) :
        p \in SaturationProfiles}

\* documents and queries that exercise whole requests: services that tie on every
\* ranking key and services that do not
TaskMetrics ==
    {Metric(n, p[1], T0, p[2], p[3], p[4], p[5], p[6]) :
        n \in {"auth-service", "user-service", "file-service"},
        p \in {q \in RankProfiles : q[1] # "critical"}}

RequestQueries ==
    {EmptyQuery,
     Query("5minutes", Undefined, Undefined, NoList, NoList, "rate", NoNumber)}

(***************************************************************************)
(* The state machine                                                       *)
(***************************************************************************)
\* a caller that has not called createSampleMetrics
IdleSeeder == [pc |-> "idle", count |-> 0, existingCount |-> 0, i |-> 0]

\* PerformanceService.metrics as constructed; operationCounts[type] || 0
NoMetrics ==
    [totalRequests |-> 0, totalErrors |-> 0,
     operationCounts |-> [database_query |-> 0, database_write |-> 0]]

\* a request that has not called UserService
IdleCall ==
    [pc |-> "idle", operation |-> "none", userId |-> EmptyString, requestId |-> "none",
     operationId |-> [prefix |-> "none", userId |-> EmptyString, requestId |-> "none"],
     failed |-> FALSE]

(***************************************************************************)
(* Initial state and the actions of the metrics aggregation                *)
(***************************************************************************)
Init ==
    /\ store = <<>>
    /\ now = T0
    /\ pc = "idle"
    /\ query = EmptyQuery
    /\ matchStage = MatchStage(EmptyQuery, T0)
    /\ timeRangeMs = Num(0)
    /\ results = <<>>
    /\ output = <<>>
    /\ tasks = <<>>
    /\ values = <<>>
    /\ thrown = NoError
    /\ response = NoResponse
    /\ paginationQuery = [page |-> Undefined, limit |-> Undefined]
    /\ paginationParams = validatePaginationParams(getDataQuery(paginationQuery))
    /\ seeders = [c \in 1..MaxSeeders |-> IdleSeeder]
    /\ operations = {}
    /\ metrics = NoMetrics
    /\ users = {Digits(1), Digits(2)}
    /\ calls = [r \in 1..MaxCalls |-> IdleCall]

\* a document is written to service_metrics
InsertMetric(e, cap) ==
    /\ pc = "idle"
    /\ Len(store) < cap
    /\ store' = Append(store, e)
    /\ UNCHANGED <<now, pc, query, matchStage, timeRangeMs, results, output, tasks, values,
                   thrown, response>>
    /\ UNCHANGED otherVars

\* time passes
Tick ==
    /\ pc = "idle"
    /\ now < T0 + MaxTick
    /\ now' = now + 1
    /\ UNCHANGED <<store, pc, query, matchStage, timeRangeMs, results, output, tasks, values,
                   thrown, response>>
    /\ UNCHANGED otherVars

\* MetricsController.getServiceAggregation up to the await: one whole run of
\* ServiceMetricsService.aggregateServiceMetrics(q)
aggregateServiceMetrics(q) ==
    /\ pc = "idle"
    /\ \E keys \in GroupOrders(store, MatchStage(q, now)) :
          LET stage == MatchStage(q, now)
              ms == getTimeRangeInMs(q)
              res == Pipeline(store, stage, ms, keys)
              processedResults == [i \in 1..Len(res) |-> ProcessResult(res[i], i - 1)]
          IN  /\ query' = q
              /\ matchStage' = stage
              /\ timeRangeMs' = ms
              /\ results' = res
              /\ output' = rankServices(processedResults, RankByOrError(q), q.limit)
    /\ pc' = "done"
    /\ response' = NoResponse
    /\ UNCHANGED <<store, now, tasks, values, thrown>>
    /\ UNCHANGED otherVars

\* the same request once more, right after the first: nothing was written to
\* service_metrics and the clock has not moved
aggregateServiceMetricsAgain ==
    /\ pc \in {"done", "again"}
    /\ \E keys \in GroupOrders(store, MatchStage(query, now)) :
          LET stage == MatchStage(query, now)
              ms == getTimeRangeInMs(query)
              res == Pipeline(store, stage, ms, keys)
              processedResults == [i \in 1..Len(res) |-> ProcessResult(res[i], i - 1)]
          IN  /\ matchStage' = stage
              /\ timeRangeMs' = ms
              /\ results' = res
              /\ output' = rankServices(processedResults, RankByOrError(query), query.limit)
    /\ pc' = "again"
    /\ UNCHANGED <<store, now, query, tasks, values, thrown, response>>
    /\ UNCHANGED otherVars

\* aggregateServiceMetrics(q) when collection.aggregate(pipeline).toArray() rejects:
\* there is no try/catch around the await, the call rejects with the driver's error
aggregateServiceMetricsRejects(q, error) ==
    /\ pc = "idle"
    /\ query' = q
    /\ matchStage' = MatchStage(q, now)
    /\ timeRangeMs' = getTimeRangeInMs(q)
    /\ thrown' = error
    /\ pc' = "failed"
    /\ response' = NoResponse
    /\ UNCHANGED <<store, now, results, output, tasks, values>>
    /\ UNCHANGED otherVars

\* aggregateServiceMetrics(q) up to Promise.all: the pipeline is read and results.map
\* runs every callback up to its first await, in the order of the results
startTasks(q) ==
    /\ pc = "idle"
    /\ \E keys \in GroupOrders(store, MatchStage(q, now)) :
          LET stage == MatchStage(q, now)
              ms == getTimeRangeInMs(q)
              res == Pipeline(store, stage, ms, keys)
          IN  /\ query' = q
              /\ matchStage' = stage
              /\ timeRangeMs' = ms
              /\ results' = res
              /\ tasks' = [i \in 1..Len(res) |-> StartTask(res[i])]
              /\ values' = [i \in 1..Len(res) |-> Pending]
    /\ pc' = "processing"
    /\ response' = NoResponse
    /\ UNCHANGED <<store, now, output, thrown>>
    /\ UNCHANGED otherVars

\* callback i resumes with the value of processErrorsByStatusCode
resumeAfterErrorsByType(i) ==
    /\ pc = "processing"
    /\ i \in 1..Len(tasks)
    /\ tasks[i].step = "awaitErrorsByType"
    /\ tasks' = [tasks EXCEPT ![i] = AwaitErrorsBySeverity(tasks[i], results[i])]
    /\ UNCHANGED <<store, now, pc, query, matchStage, timeRangeMs, results, output, values,
                   thrown, response>>
    /\ UNCHANGED otherVars

\* callback i resumes with the value of processErrorsBySeverity and returns
resumeAfterErrorsBySeverity(i) ==
    /\ pc = "processing"
    /\ i \in 1..Len(tasks)
    /\ tasks[i].step = "awaitErrorsBySeverity"
    /\ tasks' = [tasks EXCEPT ![i].step = "fulfilled"]
    /\ values' = PromiseAllFulfil(values, i,
                     BuildAggregation(results[i], i - 1, tasks[i].responseTimes,
                                      tasks[i].errorsByType, tasks[i].errorsBySeverity))
    /\ UNCHANGED <<store, now, pc, query, matchStage, timeRangeMs, results, output, thrown,
                   response>>
    /\ UNCHANGED otherVars

\* Promise.all is fulfilled: return this.rankServices(processedResults, ...)
rankProcessedResults ==
    /\ pc = "processing"
    /\ \A i \in 1..Len(tasks) : tasks[i].step = "fulfilled"
    /\ output' = rankServices(values, RankByOrError(query), query.limit)
    /\ tasks' = <<>>
    /\ values' = <<>>
    /\ pc' = "done"
    /\ UNCHANGED <<store, now, query, matchStage, timeRangeMs, results, thrown, response>>
    /\ UNCHANGED otherVars

\* res.json(...): the handler returns and its locals are gone
Respond ==
    /\ pc \in {"done", "again"}
    /\ pc' = "idle"
    /\ query' = EmptyQuery
    /\ matchStage' = MatchStage(EmptyQuery, T0)
    /\ timeRangeMs' = Num(0)
    /\ results' = <<>>
    /\ output' = <<>>
    /\ response' = SuccessResponse
    /\ UNCHANGED <<store, now, tasks, values, thrown>>
    /\ UNCHANGED otherVars

\* the catch block of getServiceAggregation: res.status(500).json(...)
RespondError ==
    /\ pc = "failed"
    /\ pc' = "idle"
    /\ query' = EmptyQuery
    /\ matchStage' = MatchStage(EmptyQuery, T0)
    /\ timeRangeMs' = Num(0)
    /\ thrown' = NoError
    /\ response' = ErrorResponse(thrown)
    /\ UNCHANGED <<store, now, results, output, tasks, values>>
    /\ UNCHANGED otherVars

NextWindow ==
    \/ \E e \in WindowMetrics : InsertMetric(e, MaxEvents)
    \/ Tick
    \/ \E q \in WindowQueries : aggregateServiceMetrics(q)
    \/ Respond

NextFilter ==
    \/ \E e \in FilterMetrics : InsertMetric(e, MaxEvents)
    \/ \E q \in FilterQueries : aggregateServiceMetrics(q)
    \/ Respond

NextRank ==
    \/ \E e \in RankMetrics : InsertMetric(e, MaxRankEvents)
    \/ \E q \in RankQueries : aggregateServiceMetrics(q)
    \/ Respond

(***************************************************************************)
(* ServiceMetricsService.createSampleMetrics                               *)
(***************************************************************************)
\* element i of the arrays the sample is drawn from
SampleServices ==
    <<"auth-service", "user-service", "payment-service", "notification-service",
      "analytics-service", "file-service">>
SampleSeverities == <<"low", "medium", "high", "critical">>
SampleStatusCodes == <<200, 201, 400, 401, 403, 404, 500, 502, 503>>

\* sampleMetrics[i] made at instant clock, with every Math.random() taken as 0
SampleMetric(i, clock) ==
    Metric(SampleServices[(i % Len(SampleServices)) + 1],
           SampleSeverities[(i % Len(SampleSeverities)) + 1],
           clock, Num(10), SampleStatusCodes[(i % Len(SampleStatusCodes)) + 1], 1,
           Some(Num(0)), Some(Num(0)))

\* sampleMetrics.slice(i, i + batchSize) of an array of length count
SampleBatch(i, count, clock) ==
    LET end == IF i + ModelBatchSize < count THEN i + ModelBatchSize ELSE count
    IN  [k \in 1..(end - i) |-> SampleMetric(i + k - 1, clock)]

\* MetricsController.createSampleMetrics calls metricsService.createSampleMetrics(count)
\* for caller c: the call runs up to await collection.countDocuments()
createSampleMetrics(c, count) ==
    /\ seeders[c].pc = "idle"
    /\ seeders' = [seeders EXCEPT ![c] = [@ EXCEPT !.pc = "countDocuments", !.count = count]]
    /\ UNCHANGED <<store, now, pc, query, matchStage, timeRangeMs, results, output, tasks,
                   values, thrown, response, paginationQuery, paginationParams,
                   operations, metrics, users, calls>>

\* countDocuments() answers: a non-empty collection ends the call, an empty one lets
\* it build the sample and reach the first insertMany
countDocuments(c) ==
    /\ seeders[c].pc = "countDocuments"
    /\ seeders' = [seeders EXCEPT ![c] =
                      [@ EXCEPT !.existingCount = Len(store),
                                !.pc = IF Len(store) > 0 \/ seeders[c].count <= 0 THEN "returned"
                                       ELSE "insertMany"]]
    /\ UNCHANGED <<store, now, pc, query, matchStage, timeRangeMs, results, output, tasks,
                   values, thrown, response, paginationQuery, paginationParams,
                   operations, metrics, users, calls>>

\* await collection.insertMany(batch), and the loop's step
insertMany(c) ==
    /\ seeders[c].pc = "insertMany"
    /\ store' = store \o SampleBatch(seeders[c].i, seeders[c].count, now)
    /\ seeders' = [seeders EXCEPT ![c] =
                      [@ EXCEPT !.i = @ + ModelBatchSize,
                                !.pc = IF seeders[c].i + ModelBatchSize < seeders[c].count
                                       THEN "insertMany" ELSE "returned"]]
    /\ UNCHANGED <<now, pc, query, matchStage, timeRangeMs, results, output, tasks,
                   values, thrown, response, paginationQuery, paginationParams,
                   operations, metrics, users, calls>>

NextSeed ==
    \/ \E c \in 1..MaxSeeders, count \in 1..MaxSeedCount : createSampleMetrics(c, count)
    \/ \E c \in 1..MaxSeeders : countDocuments(c)
    \/ \E c \in 1..MaxSeeders : insertMany(c)

(***************************************************************************)
(* PerformanceService and UserService                                      *)
(***************************************************************************)
\* the request ids and user ids the calls are made with
RequestIds == {"req-1", "req-2", "req-3"}
UserIds == {Digits(1), Digits(T0)}

\* the template strings `find_user_${userId}_${requestId}`, `create_user_${requestId}`
\* and `get_all_users_${requestId}`, kept as their parts
FindOperationId(userId, requestId) ==
    [prefix |-> "find_user", userId |-> userId, requestId |-> requestId]
CreateOperationId(requestId) ==
    [prefix |-> "create_user", userId |-> EmptyString, requestId |-> requestId]
GetAllOperationId(requestId) ==
    [prefix |-> "get_all_users", userId |-> EmptyString, requestId |-> requestId]

\* this.operations.set(operationId, operation): an entry of the same id is replaced
MapSet(ops, operationId, type) ==
    {o \in ops : o.id # operationId} \cup {[id |-> operationId, type |-> type]}
\* this.operations.get(operationId), as the set of entries found (none or one)
MapGet(ops, operationId) == {o \in ops : o.id = operationId}

\* PerformanceService.startOperation on the service state p = [operations, metrics]
startOperation(p, operationId, type) ==
    [operations |-> MapSet(p.operations, operationId, type),
     metrics |-> [p.metrics EXCEPT !.totalRequests = @ + 1]]

\* endOperation that leaves the operation in the map
endOperationKeeping(p, operationId, error) ==
    IF MapGet(p.operations, operationId) = {} THEN p
    ELSE LET operation == CHOOSE o \in MapGet(p.operations, operationId) : TRUE
         IN  [operations |-> p.operations,
              metrics |-> [p.metrics EXCEPT
                             !.totalErrors = IF error THEN @ + 1 ELSE @,
                             !.operationCounts[operation.type] = @ + 1]]

\* PerformanceService.endOperation: an unknown id returns null and changes nothing
endOperation(p, operationId, error) ==
    IF MapGet(p.operations, operationId) = {} THEN p
    ELSE LET operation == CHOOSE o \in MapGet(p.operations, operationId) : TRUE
         IN  [operations |-> p.operations \ {operation},
              metrics |-> [p.metrics EXCEPT
                             !.totalErrors = IF error THEN @ + 1 ELSE @,
                             !.operationCounts[operation.type] = @ + 1]]

\* PerformanceService.getMetrics, without the process figures
getMetrics ==
    [totalRequests |-> metrics.totalRequests, totalErrors |-> metrics.totalErrors,
     operationCounts |-> metrics.operationCounts,
     activeOperations |-> Cardinality(operations)]

\* the state of the performance service
Performance == [operations |-> operations, metrics |-> metrics]

\* the variables the user service leaves alone
notUserVars ==
    <<store, now, pc, query, matchStage, timeRangeMs, results, output, tasks, values,
      thrown, response, paginationQuery, paginationParams, seeders>>

\* a call made by request r: the part of the method before its await
StartCall(r, operation, userId, requestId, operationId, type) ==
    LET p == startOperation(Performance, operationId, type)
    IN  /\ calls[r].pc = "idle"
        /\ operations' = p.operations
        /\ metrics' = p.metrics
        /\ calls' = [calls EXCEPT ![r] =
                        [pc |-> "await", operation |-> operation, userId |-> userId,
                         requestId |-> requestId, operationId |-> operationId,
                         failed |-> FALSE]]
        /\ UNCHANGED users
        /\ UNCHANGED notUserVars

\* UserService.findById(userId, requestId) up to its await
findById(r, userId, requestId) ==
    StartCall(r, "findById", userId, requestId, FindOperationId(userId, requestId),
              "database_query")

\* UserService.create(userData, requestId) up to its await
create(r, requestId) ==
    StartCall(r, "create", EmptyString, requestId, CreateOperationId(requestId),
              "database_write")

\* UserService.getAll(requestId) up to its await
getAll(r, requestId) ==
    StartCall(r, "getAll", EmptyString, requestId, GetAllOperationId(requestId),
              "database_query")

\* findById after the delay: a missing user ends the operation with the error and
\* throws, and the catch block ends it again and rethrows
findByIdResumes(r) ==
    LET id == calls[r].operationId
        found == calls[r].userId \in users
        p == IF found THEN endOperation(Performance, id, FALSE)
             ELSE endOperation(endOperation(Performance, id, TRUE), id, TRUE)
    IN  /\ calls[r].pc = "await"
        /\ calls[r].operation = "findById"
        /\ operations' = p.operations
        /\ metrics' = p.metrics
        /\ calls' = [calls EXCEPT ![r] =
                        [@ EXCEPT !.pc = IF found THEN "returned" ELSE "rejected",
                                  !.failed = ~found]]
        /\ UNCHANGED users
        /\ UNCHANGED notUserVars

\* create after the delay: the new user's id is Date.now().toString()
createResumes(r) ==
    LET p == endOperation(Performance, calls[r].operationId, FALSE)
    IN  /\ calls[r].pc = "await"
        /\ calls[r].operation = "create"
        /\ users' = users \cup {NumberToString(Num(now))}
        /\ operations' = p.operations
        /\ metrics' = p.metrics
        /\ calls' = [calls EXCEPT ![r] = [@ EXCEPT !.pc = "returned"]]
        /\ UNCHANGED notUserVars

\* getAll after the delay
getAllResumes(r) ==
    LET p == endOperation(Performance, calls[r].operationId, FALSE)
    IN  /\ calls[r].pc = "await"
        /\ calls[r].operation = "getAll"
        /\ operations' = p.operations
        /\ metrics' = p.metrics
        /\ calls' = [calls EXCEPT ![r] = [@ EXCEPT !.pc = "returned"]]
        /\ UNCHANGED users
        /\ UNCHANGED notUserVars

NextPerformance ==
    \/ \E r \in 1..MaxCalls, userId \in UserIds, requestId \in RequestIds :
          findById(r, userId, requestId)
    \/ \E r \in 1..MaxCalls, requestId \in RequestIds : create(r, requestId)
    \/ \E r \in 1..MaxCalls, requestId \in RequestIds : getAll(r, requestId)
    \/ \E r \in 1..MaxCalls : findByIdResumes(r)
    \/ \E r \in 1..MaxCalls : createResumes(r)
    \/ \E r \in 1..MaxCalls : getAllResumes(r)

\* DataController.getData: the page and limit of the request are parsed and
\* getPaginatedData validates them
getData(page, limit) ==
    /\ paginationQuery' = [page |-> page, limit |-> limit]
    /\ paginationParams' = validatePaginationParams(getDataQuery(paginationQuery'))
    /\ UNCHANGED <<store, now, pc, query, matchStage, timeRangeMs, results, output, tasks,
                   values, thrown, response, seeders, operations, metrics, users, calls>>

NextPagination == \E page \in PaginationTexts, limit \in PaginationTexts : getData(page, limit)

NextDuration ==
    \/ \E e \in DurationMetrics : InsertMetric(e, MaxSamples)
    \/ aggregateServiceMetrics(EmptyQuery)
    \/ Respond

NextLongGroup ==
    \/ \E e \in LongGroupMetrics(store) : InsertMetric(e, MaxGroupSize)
    \/ aggregateServiceMetrics(EmptyQuery)
    \/ Respond

NextErrors ==
    \/ \E e \in ErrorMetrics : InsertMetric(e, MaxSamples)
    \/ aggregateServiceMetrics(EmptyQuery)
    \/ Respond

NextSeverity ==
    \/ \E e \in SeverityMetrics : InsertMetric(e, MaxSamples)
    \/ aggregateServiceMetrics(EmptyQuery)
    \/ Respond

NextOrder ==
    \/ \E e \in OrderMetrics : InsertMetric(e, MaxSamples)
    \/ \E q \in OrderQueries : aggregateServiceMetrics(q)
    \/ Respond

NextSaturation ==
    \/ \E e \in SaturationMetrics : InsertMetric(e, MaxSamples)
    \/ aggregateServiceMetrics(EmptyQuery)
    \/ Respond

NextRequests ==
    \/ \E e \in TaskMetrics : InsertMetric(e, MaxTaskEvents)
    \/ \E q \in RequestQueries : aggregateServiceMetrics(q)
    \/ aggregateServiceMetricsAgain
    \/ \E q \in RequestQueries, error \in ReadErrors : aggregateServiceMetricsRejects(q, error)
    \/ Respond
    \/ RespondError

NextTasks ==
    \/ \E e \in TaskMetrics : InsertMetric(e, MaxTaskEvents)
    \/ \E q \in RequestQueries : startTasks(q)
    \/ \E i \in 1..MaxTaskEvents : resumeAfterErrorsByType(i)
    \/ \E i \in 1..MaxTaskEvents : resumeAfterErrorsBySeverity(i)
    \/ rankProcessedResults
    \/ Respond

SpecWindow == Init /\ [][NextWindow]_vars
SpecFilter == Init /\ [][NextFilter]_vars
SpecRank == Init /\ [][NextRank]_vars
SpecPerformance == Init /\ [][NextPerformance]_vars
SpecSeed == Init /\ [][NextSeed]_vars
SpecPagination == Init /\ [][NextPagination]_vars
SpecDuration == Init /\ [][NextDuration]_vars
SpecLongGroup == Init /\ [][NextLongGroup]_vars
SpecErrors == Init /\ [][NextErrors]_vars
SpecSeverity == Init /\ [][NextSeverity]_vars
SpecOrder == Init /\ [][NextOrder]_vars
SpecSaturation == Init /\ [][NextSaturation]_vars
SpecRequests == Init /\ [][NextRequests]_vars
SpecTasks == Init /\ [][NextTasks]_vars

(***************************************************************************)
(* Properties                                                              *)
(***************************************************************************)
\* the sum of requestCount over the documents of the sequence d
Requests(d) == SumInt([i \in 1..Len(d) |-> d[i].requestCount])

\* the positions of results / output
Rows(s) == 1..Len(s)

\* an allow-list of the query that is absent or empty constrains nothing
Allows(list, x) == ~list.def \/ list.list = <<>> \/ \E i \in 1..Len(list.list) : list.list[i] = x

\* C1's reading of a query of FilterQueries: the custom bounds are instants, both inside
InQueryWindow(q, e) ==
    q.timeRange = "custom" => (q.startDate.t <= e.timestamp /\ e.timestamp <= q.endDate.t)

\* C1: every service of the output has totalRequests equal to the sum of
\* requestCount over exactly the stored events of that service that lie in the
\* time window and pass the service and severity allow-lists.
C1_TotalRequestsIsSumOfMatching ==
    pc = "done" =>
        \A i \in Rows(output) :
            output[i].rate.totalRequests =
                Requests(SelectSeq(store, LAMBDA e :
                    /\ e.servicename = output[i].servicename
                    /\ InQueryWindow(query, e)
                    /\ Allows(query.servicenames, e.servicename)
                    /\ Allows(query.severities, e.severity)))

\* C1's case: a service is emitted while one of its events matched the window and
\* the severity list and another one did not.
C1_Witness ==
    /\ pc = "done"
    /\ query.timeRange = "custom"
    /\ query.severities.def /\ Len(query.severities.list) = 1
    /\ \E i \in Rows(output), j, k \in 1..Len(store) :
          /\ store[j].servicename = output[i].servicename
          /\ store[k].servicename = output[i].servicename
          /\ store[j].severity = query.severities.list[1]
          /\ store[j].timestamp = query.startDate.t
          /\ store[j].requestCount = 2
          /\ (store[k].severity # store[j].severity \/ store[k].timestamp > query.endDate.t)
          /\ output[i].rate.totalRequests = 2

\* the integer h with x = h / 100, for a number x of at most two decimals
Hundredths(x) == x.num * (100 \div x.den)

\* C2: every emitted service has 0 <= errorRate <= 100, and errorRate is
\* 100 * errorCount / totalRequests rounded to two decimals (to the nearest
\* hundredth, a half rounding up).
C2_ErrorRateIsRoundedPercentage ==
    pc = "done" =>
        \A i \in Rows(output) :
            LET o == output[i].error
                h == Hundredths(o.errorRate)
            IN  /\ ~o.errorRate.nan
                /\ 100 % o.errorRate.den = 0
                /\ NumLe(Num(0), o.errorRate) /\ NumLe(o.errorRate, Num(100))
                /\ 2 * h * o.totalRequests <= 2 * 10000 * o.errorCount + o.totalRequests
                /\ 2 * 10000 * o.errorCount + o.totalRequests < 2 * (h + 1) * o.totalRequests

\* C2's case: an error rate that had to be rounded (errors in 1 or 2 of 3 requests)
C2_Witness ==
    /\ pc = "done"
    /\ \E i \in Rows(output) :
          /\ output[i].error.totalRequests = 3
          /\ output[i].error.errorCount = 2
          /\ output[i].error.errorRate = Frac(6667, 100)

\* the ranking key C3 names for each rankBy; errorRate when rankBy is absent
C3_Key(o) ==
    CASE query.rankBy = "rate" -> o.rate.requestsPerSecond
      [] query.rankBy = "error" -> o.error.errorRate
      [] query.rankBy = "duration" -> o.duration.averageResponseTime
      [] query.rankBy = "saturation" ->
            IF NumLe(o.saturation.averageCpuUsage, o.saturation.averageMemoryUsage)
            THEN o.saturation.averageMemoryUsage ELSE o.saturation.averageCpuUsage
      [] query.rankBy = "undefined" -> o.error.errorRate

\* C3: the returned list is in non-increasing order of the key rankBy selects:
\* for every adjacent pair (i, i+1), key[i] >= key[i+1].
C3_OutputSortedByKey ==
    pc = "done" =>
        \A i \in Rows(output) :
            i < Len(output) => NumLe(C3_Key(output[i + 1]), C3_Key(output[i]))

\* C3's case: three services with three different keys, which the pipeline
\* delivered in another order than the one returned
C3_Witness ==
    /\ pc = "done"
    /\ query.rankBy = "saturation"
    /\ Len(output) = 3
    /\ NumLt(C3_Key(output[3]), C3_Key(output[2]))
    /\ NumLt(C3_Key(output[2]), C3_Key(output[1]))
    /\ results[1].servicename = output[3].servicename

\* C4: in the returned list the element at 0-based position i has rank i + 1,
\* so the ranks are exactly 1..m, whatever rank the element had before sorting.
C4_RanksArePositions ==
    pc = "done" =>
        /\ \A i \in Rows(output) : output[i].rank = (i - 1) + 1
        /\ {output[i].rank : i \in Rows(output)} = 1..Len(output)

\* C4's case: the service returned first was third in the pipeline's output, so
\* its provisional rank was 3
C4_Witness ==
    /\ pc = "done"
    /\ Len(output) = 3
    /\ results[3].servicename = output[1].servicename
    /\ output[1].rank = 1

\* the services ranked by query.rankBy that are missing from the output all rank
\* behind the ones returned
AbsentRankBehind ==
    \A i \in Rows(results) :
        (\A j \in Rows(output) : output[j].servicename # results[i].servicename) =>
            \A j \in Rows(output) :
                NumLe(Round2(results[i].requestsPerSecond), output[j].rate.requestsPerSecond)

Min(a, b) == IF a <= b THEN a ELSE b

\* C5: with limit = k, for every integer k >= 0 (0 included) and n ranked
\* services, the output has at most k entries: the first min(k, n) of the ranked
\* order, with ranks 1..min(k, n); every service ranked above k is absent.
C5_LimitTruncates ==
    (pc = "done" /\ query.limit.def /\ ~query.limit.v.nan /\ query.limit.v.num >= 0) =>
        /\ Len(output) <= query.limit.v.num
        /\ Len(output) = Min(query.limit.v.num, Len(results))
        /\ \A i \in Rows(output) : output[i].rank = i
        /\ AbsentRankBehind

\* the divisor of $divide: ['$totalRequests', timeRangeSeconds || 1]
SecondsDivisor == OrOne(TimeRangeSeconds(timeRangeMs))

\* C6: the window duration used as the divisor of totalRequests is never zero
\* and never negative: a resolved duration that is zero or negative is replaced by
\* 1 second, and requestsPerSecond is never negative.
C6_DivisorAtLeastOneSecond ==
    pc = "done" =>
        /\ NumLt(Num(0), SecondsDivisor)
        /\ NumLe(timeRangeMs, Num(0)) => NumEq(SecondsDivisor, Num(1))
        /\ \A i \in Rows(results) : NumLe(Num(0), results[i].requestsPerSecond)

\* C7: before rounding, requestsPerMinute = 60 * requestsPerSecond for every
\* emitted service and every query whose duration is a number, a zero window
\* duration (coerced to 1 second) included.
C7_PerMinuteIsSixtyPerSecond ==
    (pc = "done" /\ ~timeRangeMs.nan) =>
        \A i \in Rows(results) :
            NumEq(results[i].requestsPerMinute,
                  NumMul(Num(60), results[i].requestsPerSecond))

\* C8: timeRange 'custom' or absent with at most one of startDate / endDate
\* supplied (a non-empty string): no timestamp condition is applied, so the events
\* of every timestamp are counted, and the rates are taken over 86400 seconds.
C8_MissingBoundNoTimeFilter ==
    (/\ pc = "done"
     /\ query.timeRange \in {"custom", "undefined"}
     /\ ~(Truthy(query.startDate) /\ Truthy(query.endDate))) =>
        /\ ~matchStage.hasTimestamp
        /\ SumInt([i \in Rows(results) |-> results[i].totalRequests]) = Requests(store)
        /\ \A i \in Rows(results) :
              NumEq(results[i].requestsPerSecond, Frac(results[i].totalRequests, 86400))

\* C8's case: a custom query with a start bound only, and a stored event older
\* than that bound, which is counted all the same
C8_Witness ==
    /\ pc = "done"
    /\ query.timeRange = "custom"
    /\ query.startDate = Iso(T0)
    /\ query.endDate = Undefined
    /\ Len(store) = 2
    /\ store[1].timestamp < T0
    /\ store[2].timestamp > T0
    /\ Len(results) = 1
    /\ results[1].totalRequests = store[1].requestCount + store[2].requestCount

\* C9: timeRange 'custom' with both bounds supplied, one of them no parsable
\* date: handled like a query without bounds, that is no timestamp condition and
\* rates over the nominal 86400 seconds.
C9_UnparsableBoundsFallBack ==
    (/\ pc = "done"
     /\ query.timeRange = "custom"
     /\ Truthy(query.startDate) /\ Truthy(query.endDate)
     /\ (query.startDate = Garbage \/ query.endDate = Garbage)) =>
        /\ ~matchStage.hasTimestamp
        /\ NumEq(SecondsDivisor, Num(86400))

\* the queries of WindowQueries that state a time window: a recognised named
\* range, or two parsable bounds
HasWindow(q) ==
    \/ q.timeRange \in {"5minutes", "10minutes", "1hour", "24hours", "7days"}
    \/ /\ q.timeRange \in {"custom", "undefined"}
       /\ q.startDate.k = "iso" /\ q.endDate.k = "iso"

\* the window's start and end as section 4.1 of the specification gives them
WindowStart(q) ==
    CASE q.timeRange = "5minutes" -> now - 300 * 1000
      [] q.timeRange = "10minutes" -> now - 600 * 1000
      [] q.timeRange = "1hour" -> now - 3600 * 1000
      [] q.timeRange = "24hours" -> now - 86400 * 1000
      [] q.timeRange = "7days" -> now - 604800 * 1000
      [] OTHER -> q.startDate.t

WindowEnd(q) ==
    IF q.timeRange \in {"custom", "undefined"} THEN q.endDate.t ELSE now

EmittedRequests == SumInt([i \in Rows(results) |-> results[i].totalRequests])

\* C10 as stated: the window is [start, end): the events counted are those with
\* start <= timestamp < end (for a window with start < end).
C10_WindowHalfOpen ==
    (pc = "done" /\ HasWindow(query) /\ WindowStart(query) < WindowEnd(query)) =>
        EmittedRequests =
            Requests(SelectSeq(store, LAMBDA e :
                WindowStart(query) <= e.timestamp /\ e.timestamp < WindowEnd(query)))

\* C10 amended: the window is [start, end]: the events counted are those with
\* start <= timestamp <= end; an event at start and an event at end both count.
C10_WindowClosed ==
    (pc = "done" /\ HasWindow(query)) =>
        EmittedRequests =
            Requests(SelectSeq(store, LAMBDA e :
                WindowStart(query) <= e.timestamp /\ e.timestamp <= WindowEnd(query)))

\* C10's case: the last five minutes are asked for, one stored event is exactly
\* five minutes old and one is of this instant; both are counted
C10_Witness ==
    /\ pc = "done"
    /\ query.timeRange = "5minutes"
    /\ Len(store) = 2
    /\ store[1].timestamp = now - FiveMinutes
    /\ store[2].timestamp = now
    /\ EmittedRequests = store[1].requestCount + store[2].requestCount

(***************************************************************************)
(* Properties of repeated requests, statistics, breakdowns and failures    *)
(***************************************************************************)
\* the service names of results / output, in order
Names(s) == [i \in 1..Len(s) |-> s[i].servicename]

C12_DurationOrdered ==
    pc = "done" =>
        \A i \in Rows(output) :
            LET d == output[i].duration
            IN  /\ NumLe(d.minResponseTime, d.medianResponseTime)
                /\ NumLe(d.medianResponseTime, d.maxResponseTime)
                /\ NumLe(d.minResponseTime, d.averageResponseTime)
                /\ NumLe(d.averageResponseTime, d.maxResponseTime)

\* the stored events of service name, in store order
EventsOf(name) == SelectSeq(store, LAMBDA e : e.servicename = name)

\* C13 as stated: a service whose group holds exactly one event, of response time v,
\* reports average, median, min, max, p95 and p99 all equal to v, whatever v >= 0.
C13_SingleEventAllEqual ==
    pc = "done" =>
        \A i \in Rows(output) :
            Len(EventsOf(output[i].servicename)) = 1 =>
                LET v == EventsOf(output[i].servicename)[1].responseTime
                    d == output[i].duration
                IN  /\ NumEq(d.averageResponseTime, v)
                    /\ NumEq(d.medianResponseTime, v)
                    /\ NumEq(d.minResponseTime, v)
                    /\ NumEq(d.maxResponseTime, v)
                    /\ NumEq(d.p95ResponseTime, v)
                    /\ NumEq(d.p99ResponseTime, v)

\* the stored events of service name the claim says the query q selects: inside the
\* window, and each allow-list either absent, empty, or holding the event's field
Selected(q, name) ==
    SelectSeq(EventsOf(name), LAMBDA e :
        /\ InQueryWindow(q, e)
        /\ (~q.servicenames.def \/ q.servicenames.list = <<>>
               \/ e.servicename \in Range(q.servicenames.list))
        /\ (~q.severities.def \/ q.severities.list = <<>>
               \/ e.severity \in Range(q.severities.list)))

\* C14: the events that enter the aggregation are exactly those inside the time
\* window whose servicename is in the service list and whose severity is in the
\* severity list, where a list that is absent or empty admits every event: each
\* group holds as many samples as the service has such events, and a service with
\* such an event has a group.
C14_AllowListsAreMembership ==
    pc = "done" =>
        /\ \A i \in Rows(results) :
              Len(results[i].responseTimes) = Len(Selected(query, results[i].servicename))
        /\ \A k \in 1..Len(store) :
              Selected(query, store[k].servicename) # <<>> =>
                  store[k].servicename \in Range(Names(results))

\* C14's cases: an empty service list with a one-element severity list that keeps one
\* of two stored events; a two-element service list with an absent severity list
\* that keeps both
C14_Witness ==
    /\ pc = "done"
    /\ Len(store) = 2
    /\ store[1].severity # store[2].severity
    /\ \/ /\ query.servicenames = List(<<>>)
          /\ query.severities = List(<<"critical">>)
          /\ Len(results) = 1
          /\ Len(results[1].responseTimes) = 1
       \/ /\ query.servicenames = List(<<"user-service", "auth-service">>)
          /\ query.severities = NoList
          /\ SumInt([i \in Rows(results) |-> Len(results[i].responseTimes)]) = 2

\* C16: a request over a store none of whose events the query selects succeeds with
\* the empty list; a service is in the output only if at least one of its events was
\* selected, and no service is in the output twice.
C16_OnlyMatchedServicesOnce ==
    pc = "done" =>
        /\ thrown = NoError
        /\ (\A k \in 1..Len(store) : Selected(query, store[k].servicename) = <<>>)
              => output = <<>>
        /\ \A i \in Rows(output) : Selected(query, output[i].servicename) # <<>>
        /\ \A i, j \in Rows(output) :
              output[i].servicename = output[j].servicename => i = j

\* C16's cases: two stored events none of which the query selects and the empty
\* list returned; two selected events of one service returned as one entry
C16_Witness ==
    /\ pc = "done"
    /\ Len(store) = 2
    /\ \/ /\ query.servicenames = List(<<"file-service">>)
          /\ output = <<>>
       \/ /\ store[1].servicename = store[2].servicename
          /\ Len(Selected(query, store[1].servicename)) = 2
          /\ Len(output) = 1

\* C15: when the read of the pipeline fails, aggregateServiceMetrics fails with the
\* error of the read and returns no list, not even a partial one; nothing is tried
\* again: the one step that follows is the controller's answer, which has
\* success = false, no data, and the message of that error.
C15_ReadFailurePropagates ==
    /\ [](pc = "failed" => (thrown \in ReadErrors /\ output = <<>> /\ results = <<>>))
    /\ [][pc = "failed" =>
            /\ pc' = "idle"
            /\ store' = store
            /\ response'.success = FALSE
            /\ response'.hasData = FALSE
            /\ response'.status = 500
            /\ response'.message = thrown]_vars

\* C15's case: over a store that holds events the read failed and the controller
\* has answered
C15_Witness ==
    /\ pc = "idle"
    /\ Len(store) = 2
    /\ response.status = 500
    /\ response.message = "MongoNetworkError"

\* the stored error events (statusCode >= 400) of service name
ErrorEventsOf(name) == SelectSeq(EventsOf(name), LAMBDA e : e.statusCode >= 400)

\* the two breakdowns of an output entry as sequences of <<key, count, percentage>>
ByType(o) ==
    [j \in Rows(o.error.errorsByType) |->
        LET b == o.error.errorsByType[j] IN <<b.statusCode, b.count, b.percentage>>]

BySeverity(o) ==
    [j \in Rows(o.error.errorsBySeverity) |->
        LET b == o.error.errorsBySeverity[j] IN <<b.severity, b.count, b.percentage>>]

\* no key twice, and the counts in non-increasing order
DistinctAndDescending(b) ==
    /\ \A j, k \in Rows(b) : b[j][1] = b[k][1] => j = k
    /\ \A j \in Rows(b) : j < Len(b) => b[j][2] >= b[j + 1][2]

\* C17: in each breakdown of every emitted service (all stored events are selected
\* here) no key occurs in two entries, every entry's count is the sum of requestCount
\* over the service's error events with that key, and the entries are in
\* non-increasing order of count.
C17_BreakdownMergedAndSorted ==
    pc = "done" =>
        \A i \in Rows(output) :
            LET errs == ErrorEventsOf(output[i].servicename)
                t == ByType(output[i])
                v == BySeverity(output[i])
            IN  /\ DistinctAndDescending(t)
                /\ DistinctAndDescending(v)
                /\ \A j \in Rows(t) :
                      t[j][2] = Requests(SelectSeq(errs, LAMBDA e : e.statusCode = t[j][1]))
                /\ \A j \in Rows(v) :
                      v[j][2] = Requests(SelectSeq(errs, LAMBDA e : e.severity = v[j][1]))

\* C17's case: three error events, the first stored of status 404, the other two of
\* status 500; the two are merged into one entry, which comes first
C17_Witness ==
    /\ pc = "done"
    /\ Len(store) = 3
    /\ store[1].statusCode = 404
    /\ Len(output) = 1
    /\ Len(ByType(output[1])) = 2
    /\ ByType(output[1])[1][1] = 500
    /\ ByType(output[1])[1][2] = store[2].requestCount + store[3].requestCount
    /\ Len(BySeverity(output[1])) = 3

\* the sum of the percentages of a breakdown, in hundredths
SumOfPercentages(b) == SumInt([j \in Rows(b) |-> Hundredths(b[j][3])])

\* 100 * count / errorCount rounded half up to two decimals, and the sum of the
\* percentages within 0.005 per entry of 100
PercentagesOf(b, errorCount) ==
    /\ \A j \in Rows(b) :
          /\ ~b[j][3].nan
          /\ b[j][3] = Frac((2 * 10000 * b[j][2] + errorCount) \div (2 * errorCount), 100)
    /\ 2 * Abs(SumOfPercentages(b) - 10000) <= Len(b)

\* C18: for every emitted service with errorCount > 0, in each breakdown every
\* entry's percentage is 100 * count / errorCount rounded to two decimals, and the
\* percentages of the breakdown sum to 100 within 0.005 per entry.
C18_PercentagesOfErrorCount ==
    pc = "done" =>
        \A i \in Rows(output) :
            output[i].error.errorCount > 0 =>
                /\ PercentagesOf(ByType(output[i]), output[i].error.errorCount)
                /\ PercentagesOf(BySeverity(output[i]), output[i].error.errorCount)

\* C18's case: three error events of three severities and equal counts, each
\* reported as 33.33 percent, which sum to 99.99
C18_Witness ==
    /\ pc = "done"
    /\ Len(output) = 1
    /\ output[1].error.errorCount = 3
    /\ Len(BySeverity(output[1])) = 3
    /\ \A j \in 1..3 : BySeverity(output[1])[j][3] = Frac(3333, 100)
    /\ SumOfPercentages(BySeverity(output[1])) = 9999

\* the mean of a gauge over events, an absent gauge counted as a sample of 0
GaugeMean(gauges) ==
    NumDiv(SumNum([k \in 1..Len(gauges) |->
                      IF gauges[k].def THEN gauges[k].v ELSE Num(0)]),
           Num(Len(gauges)))

\* the larger of the mean CPU and the mean memory gauge of the events of service name
MaxMeanGauge(name) ==
    LET ev == EventsOf(name)
    IN  MathMax(GaugeMean([k \in 1..Len(ev) |-> ev[k].cpuUsage]),
                GaugeMean([k \in 1..Len(ev) |-> ev[k].memoryUsage]))

\* C19: resourceUtilization of every emitted service is decided by m, the larger of
\* the group's mean CPU and mean memory gauge (absent gauges counted as 0):
\* critical iff m >= 90, high iff 70 <= m < 90, medium iff 50 <= m < 70, low iff
\* m < 50.
C19_UtilizationBands ==
    pc = "done" =>
        \A i \in Rows(output) :
            LET m == MaxMeanGauge(output[i].servicename)
                u == output[i].saturation.resourceUtilization
            IN  /\ u = "critical" <=> NumLe(Num(90), m)
                /\ u = "high" <=> (NumLe(Num(70), m) /\ NumLt(m, Num(90)))
                /\ u = "medium" <=> (NumLe(Num(50), m) /\ NumLt(m, Num(70)))
                /\ u = "low" <=> NumLt(m, Num(50))

\* C19's case: two events with CPU gauges 50 and 90 and no memory gauge: the mean
\* is exactly 70, the memory mean is 0, and the service is reported high
C19_Witness ==
    /\ pc = "done"
    /\ Len(store) = 2
    /\ store[1].cpuUsage = Some(Num(50))
    /\ store[2].cpuUsage = Some(Num(90))
    /\ ~store[1].memoryUsage.def /\ ~store[2].memoryUsage.def
    /\ Len(output) = 1
    /\ output[1].saturation.resourceUtilization = "high"

\* what running the callbacks one after the other, each to its end, gives
Sequentially == [i \in Rows(results) |-> ProcessResult(results[i], i - 1)]

\* C20: whatever the order in which the callbacks started by Promise.all resume and
\* finish, every callback works on its own group only (its breakdowns and its value
\* are those of results[i], a step touches one callback's state), Promise.all holds
\* the value of callback i at position i, and the list returned is the list that
\* running the callbacks one after the other returns, in the same order.
C20_TasksIndependentOfInterleaving ==
    /\ [](pc = "processing" =>
            /\ Len(tasks) = Len(results)
            /\ Len(values) = Len(results)
            /\ \A i \in Rows(results) :
                  /\ tasks[i].errorsByType = Sequentially[i].error.errorsByType
                  /\ tasks[i].step # "awaitErrorsByType" =>
                        tasks[i].errorsBySeverity = Sequentially[i].error.errorsBySeverity
                  /\ values[i] = IF tasks[i].step = "fulfilled" THEN Sequentially[i]
                                 ELSE Pending)
    /\ [](pc = "done" =>
            output = rankServices(Sequentially, RankByOrError(query), query.limit))
    /\ [][(pc = "processing" /\ pc' = "processing") =>
            \E i \in Rows(tasks) :
                \A j \in Rows(tasks) \ {i} : tasks'[j] = tasks[j] /\ values'[j] = values[j]]_vars

\* C20's case: three callbacks in flight, the last one finished first, the second
\* past its first await, the first not yet resumed
C20_Witness ==
    /\ pc = "processing"
    /\ Len(tasks) = 3
    /\ tasks[1].step = "awaitErrorsByType"
    /\ tasks[2].step = "awaitErrorsBySeverity"
    /\ tasks[3].step = "fulfilled"
    /\ values[1] = Pending
    /\ values[3].servicename = results[3].servicename

(***************************************************************************)
(* Properties of pagination, windows, percentiles, seeding and accounting  *)
(***************************************************************************)
\* C21 as stated: whatever page and limit the request carried, the validated page is
\* an integer >= 1 and the validated limit is an integer between 1 and 100.
C21_PaginationParamsInRange ==
    LET page == paginationParams.page
        limit == paginationParams.limit
    IN  /\ ~page.nan /\ page.den = 1 /\ page.num >= 1
        /\ ~limit.nan /\ limit.den = 1 /\ limit.num >= 1 /\ limit.num <= 100

\* the seconds the claim gives for each named option
NamedSeconds ==
    [r \in {"5minutes", "10minutes", "1hour", "24hours", "7days"} |->
        CASE r = "5minutes" -> 300
          [] r = "10minutes" -> 600
          [] r = "1hour" -> 3600
          [] r = "24hours" -> 86400
          [] r = "7days" -> 604800]

\* C22: for timeRange 5minutes, 10minutes, 1hour, 24hours, 7days the event filter is
\* the window from now minus 300, 600, 3600, 86400, 604800 seconds to now, the rates
\* are computed over that number of seconds, and startDate/endDate given alongside
\* the option change nothing.
C22_NamedWindows ==
    (pc = "done" /\ query.timeRange \in DOMAIN NamedSeconds) =>
        LET seconds == NamedSeconds[query.timeRange]
        IN  /\ matchStage.hasTimestamp
            /\ matchStage.gte = Num(now - seconds * 1000)
            /\ matchStage.lte = Num(now)
            /\ timeRangeMs = Num(seconds * 1000)
            /\ \A i \in Rows(results) :
                  /\ NumEq(results[i].requestsPerSecond,
                           Frac(results[i].totalRequests, seconds))
                  /\ results[i].totalRequests =
                        Requests(SelectSeq(EventsOf(results[i].servicename), LAMBDA e :
                            now - seconds * 1000 <= e.timestamp /\ e.timestamp <= now))

\* C22's case: the last seven days are asked for one millisecond after T0, with a
\* startDate and an endDate supplied as well; the event stamped T0 is counted
C22_Witness ==
    /\ pc = "done"
    /\ query.timeRange = "7days"
    /\ query.startDate = Iso(T0)
    /\ query.endDate = Iso(T0)
    /\ now = T0 + 1
    /\ Len(store) = 1
    /\ store[1].timestamp = T0
    /\ Len(results) = 1
    /\ timeRangeMs = Num(604800 * 1000)

\* C23: errorCount of every emitted service is the sum of requestCount over the
\* service's selected events with statusCode >= 400 (all stored events are selected
\* here; 400 counts, 399 does not), and 0 <= errorCount <= totalRequests.
C23_ErrorCountFrom400 ==
    pc = "done" =>
        \A i \in Rows(output) :
            LET e == output[i].error
            IN  /\ e.errorCount = Requests(ErrorEventsOf(output[i].servicename))
                /\ 0 <= e.errorCount
                /\ e.errorCount <= e.totalRequests
                /\ e.totalRequests = Requests(EventsOf(output[i].servicename))

\* C23's case: one event of status 399 and one of status 400; only the second counts
C23_Witness ==
    /\ pc = "done"
    /\ Len(store) = 2
    /\ store[1].statusCode = 399
    /\ store[2].statusCode = 400
    /\ Len(output) = 1
    /\ output[1].error.errorCount = store[2].requestCount
    /\ output[1].error.totalRequests = store[1].requestCount + store[2].requestCount

\* the response times of the stored events of service name, one per event
SampleTimes(name) == [k \in 1..Len(EventsOf(name)) |-> EventsOf(name)[k].responseTime]

\* v is the element at 0-based index k of the samples sorted ascending: at most k
\* samples lie below v and at least k + 1 are v or below
IsElementAt(v, samples, k) ==
    /\ \E j \in Rows(samples) : samples[j] = v
    /\ Cardinality({j \in Rows(samples) : NumLt(samples[j], v)}) <= k
    /\ Cardinality({j \in Rows(samples) : NumLe(samples[j], v)}) >= k + 1

\* r is x rounded half up to two decimals
RoundsTo(x, r) ==
    /\ ~r.nan
    /\ 100 % r.den = 0
    /\ NumLe(NumSub(r, Frac(1, 200)), x)
    /\ NumLt(x, NumAdd(r, Frac(1, 200)))

\* C24: the median of a group of n events is the element at 0-based index
\* floor(n / 2) of its response times sorted ascending, one sample per event whatever
\* the requestCount (for even n the upper of the two middle values); it is reported
\* rounded to two decimals.
C24_MedianIsUpperMiddle ==
    pc = "done" =>
        \A i \in Rows(results) :
            LET samples == SampleTimes(results[i].servicename)
            IN  /\ IsElementAt(results[i].medianResponseTime, samples, Len(samples) \div 2)
                /\ \A j \in Rows(output) :
                      output[j].servicename = results[i].servicename =>
                          RoundsTo(results[i].medianResponseTime,
                                   output[j].duration.medianResponseTime)

\* C24's case: two events, the first of 20 ms and requestCount 1, the second of
\* 10 ms and requestCount 2: the median is 20
C24_Witness ==
    /\ pc = "done"
    /\ Len(store) = 2
    /\ store[1].responseTime = Num(20) /\ store[1].requestCount = 1
    /\ store[2].responseTime = Num(10) /\ store[2].requestCount = 2
    /\ Len(output) = 1
    /\ output[1].duration.medianResponseTime = Num(20)

\* C25: p95 and p99 of a group of n events are the elements at 0-based indices
\* floor(n * 0.95) and floor(n * 0.99) of its response times sorted ascending,
\* reported rounded to two decimals.
C25_PercentilesByFloorIndex ==
    pc = "done" =>
        \A i \in Rows(output) :
            LET samples == SampleTimes(output[i].servicename)
                n == Len(samples)
            IN  /\ \E v \in Range(samples) :
                      /\ IsElementAt(v, samples, (n * 95) \div 100)
                      /\ RoundsTo(v, output[i].duration.p95ResponseTime)
                /\ \E v \in Range(samples) :
                      /\ IsElementAt(v, samples, (n * 99) \div 100)
                      /\ RoundsTo(v, output[i].duration.p99ResponseTime)

\* C25's cases: the samples 10, 20, 30, whose p95 is 30; twenty samples 10 .. 200,
\* whose p95 is the last, 200
C25_Witness ==
    /\ pc = "done"
    /\ Len(output) = 1
    /\ \/ /\ SampleTimes("auth-service") = <<Num(10), Num(20), Num(30)>>
          /\ output[1].duration.p95ResponseTime = Num(30)
       \/ /\ Len(store) = 20
          /\ SampleTimes("auth-service") = [k \in 1..20 |-> Num(10 * k)]
          /\ output[1].duration.p95ResponseTime = Num(200)

\* C26: for every group of n >= 1 events the indices floor(n * 0.95) and
\* floor(n * 0.99) lie in 0 .. n - 1, p95 and p99 are read from an element that exists
\* (they are numbers), and the unrounded values are ordered
\* median <= p95 <= p99 <= max.
C26_PercentilesInBounds ==
    pc = "done" =>
        \A i \in Rows(output) :
            LET samples == SampleTimes(output[i].servicename)
                n == Len(samples)
            IN  /\ n >= 1
                /\ (n * 95) \div 100 \in 0..(n - 1)
                /\ (n * 99) \div 100 \in 0..(n - 1)
                /\ ~output[i].duration.p95ResponseTime.nan
                /\ ~output[i].duration.p99ResponseTime.nan
                /\ \E m, v, w, x \in Range(samples) :
                      /\ IsElementAt(m, samples, n \div 2)
                      /\ IsElementAt(v, samples, (n * 95) \div 100)
                      /\ IsElementAt(w, samples, (n * 99) \div 100)
                      /\ IsElementAt(x, samples, n - 1)
                      /\ RoundsTo(v, output[i].duration.p95ResponseTime)
                      /\ RoundsTo(w, output[i].duration.p99ResponseTime)
                      /\ NumLe(m, v) /\ NumLe(v, w) /\ NumLe(w, x)
                      /\ x = output[i].duration.maxResponseTime

\* C26's case: 21 samples 10 .. 210: the median is 110, p95 is 200 (index 19), p99
\* is 210 (index 20, the last)
C26_Witness ==
    /\ pc = "done"
    /\ Len(store) = 21
    /\ SampleTimes("auth-service") = [k \in 1..21 |-> Num(10 * k)]
    /\ Len(output) = 1
    /\ output[1].duration.medianResponseTime = Num(110)
    /\ output[1].duration.p95ResponseTime = Num(200)
    /\ output[1].duration.p99ResponseTime = Num(210)
    /\ output[1].duration.maxResponseTime = Num(210)

\* the sum of the counts of a breakdown
SumOfCounts(b) == SumInt([j \in Rows(b) |-> b[j][2]])

\* C27 as stated: for every emitted service the counts of errorsByType sum to
\* errorCount and the counts of errorsBySeverity sum to errorCount, also when error
\* events have a severity that is missing or empty.
C27_BreakdownsConserveErrorCount ==
    pc = "done" =>
        \A i \in Rows(output) :
            /\ SumOfCounts(ByType(output[i])) = output[i].error.errorCount
            /\ SumOfCounts(BySeverity(output[i])) = output[i].error.errorCount

\* the arrangements of 1..n
Arrangements(n) == {f \in [1..n -> 1..n] : \A i, j \in 1..n : f[i] = f[j] => i = j}

\* what aggregateServiceMetrics(q) returns at instant clock over the documents docs
\* when $group emits the groups in the order keys
OutputOf(docs, q, clock, keys) ==
    LET res == Pipeline(docs, MatchStage(q, clock), getTimeRangeInMs(q), keys)
    IN  rankServices([i \in 1..Len(res) |-> ProcessResult(res[i], i - 1)],
                     RankByOrError(q), q.limit)

\* the output is the one every other order of the stored events and of the groups
\* gives as well
SameForEveryOrder ==
    \A f \in Arrangements(Len(store)) :
        LET docs == [i \in 1..Len(store) |-> store[f[i]]]
        IN  \A keys \in GroupOrders(docs, MatchStage(query, now)) :
                OutputOf(docs, query, now, keys) = output

\* no two groups tie on the ranking key, and in no breakdown two entries tie on count
NoTies ==
    /\ \A i, j \in Rows(Sequentially) :
          NumEq(RankKey(RankByOrError(query), Sequentially[i]),
                RankKey(RankByOrError(query), Sequentially[j])) => i = j
    /\ \A i \in Rows(Sequentially) :
          /\ \A j, k \in Rows(ByType(Sequentially[i])) :
                ByType(Sequentially[i])[j][2] = ByType(Sequentially[i])[k][2] => j = k
          /\ \A j, k \in Rows(BySeverity(Sequentially[i])) :
                BySeverity(Sequentially[i])[j][2] = BySeverity(Sequentially[i])[k][2] => j = k

\* C28 as stated: for a fixed query, instant and set of stored events the output is
\* the same for every order of the groups and of the events inside a group, also
\* when services tie on the ranking key or breakdown entries tie on count.
C28_SameForEveryOrder == pc = "done" => SameForEveryOrder

\* C28 amended: the output is the same for every order of the groups and of the
\* events inside a group provided no two services tie on the ranking key and no two
\* entries of a breakdown tie on count.
C28_SameForEveryOrderWithoutTies == (pc = "done" /\ NoTies) => SameForEveryOrder

\* C28's case: two services without ties, one of them with two error entries of
\* different counts whose smaller one was stored first
C28_Witness ==
    /\ pc = "done"
    /\ NoTies
    /\ Len(store) = 3
    /\ Len(output) = 2
    /\ store[1].statusCode = 404
    /\ Len(ByType(output[1])) = 2
    /\ ByType(output[1])[1][1] = 500

\* the callers whose createSampleMetrics has returned
Returned == {c \in DOMAIN seeders : seeders[c].pc = "returned"}

\* C29 as stated: a call that found the collection non-empty has inserted nothing,
\* and once all calls of createSampleMetrics(count) made against the initially
\* empty collection have returned, the collection holds exactly count documents.
C29_SeedsAtMostOnce ==
    /\ \A c \in Returned : seeders[c].existingCount > 0 => seeders[c].i = 0
    /\ (/\ Returned # {}
        /\ \A c \in DOMAIN seeders : seeders[c].pc \in {"idle", "returned"}
        /\ \A c, d \in Returned : seeders[c].count = seeders[d].count)
          => \A c \in Returned : Len(store) = seeders[c].count

\* the requests that have called the user service, and those whose call failed
Made == {r \in DOMAIN calls : calls[r].pc # "idle"}
Failed == {r \in Made : calls[r].failed}
\* no call is between its start and its end
Quiescent == \A r \in DOMAIN calls : calls[r].pc \in {"idle", "returned", "rejected"}
\* the calls made have pairwise distinct operation ids
DistinctOperationIds ==
    \A r, q \in Made : r # q => calls[r].operationId # calls[q].operationId
SumOfOperationCounts ==
    getMetrics.operationCounts.database_query + getMetrics.operationCounts.database_write

\* C30: once every call of findById, create and getAll, made with pairwise distinct
\* operation ids, has completed, no operation is active, totalRequests is the number
\* of calls and the sum of operationCounts, and totalErrors is the number of calls
\* that failed; and the step in which a findById fails with 'User not found' removes
\* exactly its one operation and raises totalErrors and the counts by exactly 1.
C30_AccountingExactAtQuiescence ==
    /\ [](Quiescent /\ DistinctOperationIds =>
            /\ getMetrics.activeOperations = 0
            /\ getMetrics.totalRequests = Cardinality(Made)
            /\ getMetrics.totalRequests = SumOfOperationCounts
            /\ getMetrics.totalErrors = Cardinality(Failed))
    /\ [][\A r \in DOMAIN calls :
            (calls[r].pc = "await" /\ calls'[r].pc = "rejected" /\ DistinctOperationIds)
              => /\ metrics'.totalErrors = metrics.totalErrors + 1
                 /\ metrics'.operationCounts.database_query
                      = metrics.operationCounts.database_query + 1
                 /\ operations' = operations \ MapGet(operations, calls[r].operationId)
                 /\ Cardinality(operations') = Cardinality(operations) - 1]_vars

\* every call was made, all three operations were used and have completed, and one
\* findById failed
C30_Witness ==
    /\ Quiescent
    /\ DistinctOperationIds
    /\ Made = DOMAIN calls
    /\ {calls[r].operation : r \in Made} = {"findById", "create", "getAll"}
    /\ Cardinality(Failed) = 1
    /\ getMetrics.totalErrors = 1
    /\ getMetrics.activeOperations = 0

====
